---------------------------- MODULE Spec2Model ----------------------------
(***************************************************************************)
(* Budget & Expense Tracker (src/main.py): the session state kept in       *)
(* st.session_state, the settings file, and the handlers of the budget,    *)
(* calculator, settings and history pages.                                 *)
(*                                                                         *)
(* One action is one script run with one widget fired.  Page routing       *)
(* (st.session_state.page) is left out: every page is reachable from every *)
(* state through the menu.  The display preferences (theme,                *)
(* notifications_enabled, critical_warning_enabled) are left out of the    *)
(* state: no handler reads them to change anything, so their change is     *)
(* the one action ChangeSettings, which saves the file, and the notice     *)
(* they select is an operator of the two flags.                            *)
(*                                                                         *)
(* Money is a Decimal in the code; here it is an integer count of          *)
(* 10^-(2*MaxFrac), exact for every input text with at most MaxFrac        *)
(* fractional digits and for the product of two of them.                   *)
(***************************************************************************)
EXTENDS Integers, Sequences, FiniteSets, TLC

VARIABLES
    currency,                  \* st.session_state.currency
    budget_type,               \* st.session_state.budget_type
    budget_amount,             \* st.session_state.budget_amount
    budget_start_date,         \* st.session_state.budget_start_date
    expenses,                  \* st.session_state.expenses (current view)
    expense_history,           \* st.session_state.expense_history
    settings_file,             \* content of app_settings.json
    now,                       \* the wall clock read by datetime.now()
    reset_needed,              \* local of check_budget_reset: << its value >>
                               \* at the last call, None before the first
    filtered_expenses,         \* local of expense_history(), last evaluation
    result,                    \* how the last script run ended
    periodSpent                \* sum of the amounts added since the last
                               \* set-budget or rollover (history variable)

vars == << currency, budget_type, budget_amount, budget_start_date, expenses,
           expense_history, settings_file, now, reset_needed,
           filtered_expenses, result, periodSpent >>

\* Python's None.  budget_type holds a string, so its None is a string; the
\* other optional values are tuples or records, so theirs is the empty tuple.
\* budget_amount holds << d >> for the Decimal d.
NoType == "None"
None == << >>

\* an exception raised by the code, by the name of its class
ValueError == [error |-> "ValueError"]

-----------------------------------------------------------------------------
(* Bounds                                                                  *)

MaxHistory == 1        \* expenses are added while the history is shorter
MaxFrac == 1           \* most fractional digits of an input text
NumYears == 3          \* years of the calendar, from Epoch's on
MaxFiltered == 2       \* longest history handed to the history page's filter

Epoch == [year |-> 2023, month |-> 1, day |-> 1, hour |-> 0, minute |-> 0]
Years == Epoch.year .. (Epoch.year + NumYears - 1)

-----------------------------------------------------------------------------
(* datetime: the parts of Python's datetime the code uses                  *)

IsLeap(y) == (y % 4 = 0) /\ ((y % 100 # 0) \/ (y % 400 = 0))

DaysInMonth(y, m) ==
    IF m = 2 THEN (IF IsLeap(y) THEN 29 ELSE 28)
    ELSE IF m \in {4, 6, 9, 11} THEN 30 ELSE 31

DateTime(y, m, d, h, mi) ==
    [year |-> y, month |-> m, day |-> d, hour |-> h, minute |-> mi]

ValidDate(y, m, d) == m \in 1..12 /\ d >= 1 /\ d <= DaysInMonth(y, m)

RECURSIVE DaysBeforeMonth(_, _)
DaysBeforeMonth(y, m) ==
    IF m = 1 THEN 0 ELSE DaysBeforeMonth(y, m - 1) + DaysInMonth(y, m - 1)

DaysBeforeYear(y) ==
    (y - 1) * 365 + ((y - 1) \div 4) - ((y - 1) \div 100) + ((y - 1) \div 400)

\* date.toordinal()
toordinal(t) == DaysBeforeYear(t.year) + DaysBeforeMonth(t.year, t.month) + t.day

MinuteOfDay(t) == t.hour * 60 + t.minute

\* (a - b).days : timedelta normalises to 0 <= seconds < 86400, days floored
TimedeltaDays(a, b) ==
    ((toordinal(a) - toordinal(b)) * 1440 + (MinuteOfDay(a) - MinuteOfDay(b)))
        \div 1440

\* a.date() > b.date() : comparison of (year, month, day)
DateGT(a, b) ==
    \/ a.year > b.year
    \/ a.year = b.year /\ a.month > b.month
    \/ a.year = b.year /\ a.month = b.month /\ a.day > b.day

\* t + timedelta(days=1), then k days by repetition
NextDay(t) ==
    IF t.day < DaysInMonth(t.year, t.month) THEN [t EXCEPT !.day = t.day + 1]
    ELSE IF t.month < 12 THEN [t EXCEPT !.month = t.month + 1, !.day = 1]
    ELSE [t EXCEPT !.year = t.year + 1, !.month = 1, !.day = 1]

RECURSIVE AddDays(_, _)
AddDays(t, k) == IF k = 0 THEN t ELSE AddDays(NextDay(t), k - 1)

\* t.strftime("%Y-%m-%d") : the calendar date, time of day dropped
strftime(t) == << t.year, t.month, t.day >>

\* t.isoformat() and datetime.fromisoformat(s)
isoformat(t) == << t.year, t.month, t.day, t.hour, t.minute >>
fromisoformat(s) == DateTime(s[1], s[2], s[3], s[4], s[5])

\* t.replace(year=y, month=m) : ValueError when the day does not exist
replace(t, y, m) ==
    IF ValidDate(y, m, t.day) THEN [t EXCEPT !.year = y, !.month = m]
    ELSE ValueError

-----------------------------------------------------------------------------
(* Decimal(re.sub(r'[^\d.]', '', text)) : texts are sequences of characters *)

Digits == {"0", "1", "2", "3", "4", "5", "6", "7", "8", "9"}

DigitVal(c) ==
    CASE c = "0" -> 0 [] c = "1" -> 1 [] c = "2" -> 2 [] c = "3" -> 3
      [] c = "4" -> 4 [] c = "5" -> 5 [] c = "6" -> 6 [] c = "7" -> 7
      [] c = "8" -> 8 [] c = "9" -> 9

RECURSIVE Pow10(_)
Pow10(n) == IF n = 0 THEN 1 ELSE 10 * Pow10(n - 1)

\* the integer that stands for Decimal('1')
ONE == Pow10(2 * MaxFrac)

IsDigitOrDot(c) == c \in Digits \cup {"."}

\* re.sub(r'[^\d.]', '', text)
CleanText(text) == SelectSeq(text, IsDigitOrDot)

RECURSIVE IntOfDigits(_)
IntOfDigits(s) ==
    IF s = << >> THEN 0
    ELSE 10 * IntOfDigits(SubSeq(s, 1, Len(s) - 1)) + DigitVal(s[Len(s)])

IsDot(c) == c = "."
IsDigit(c) == c \in Digits

\* number of characters after the decimal point of a cleaned text with one dot
FracLen(s) == Len(s) - (CHOOSE i \in 1..Len(s) : s[i] = ".")

\* Decimal(s) for a text s of digits and dots: << d >>, or None for
\* InvalidOperation, raised unless s has a digit and at most one dot
Decimal(s) ==
    LET dots == Len(SelectSeq(s, IsDot))
        digs == SelectSeq(s, IsDigit)
    IN  IF dots > 1 \/ digs = << >> THEN None
        ELSE IF dots = 0 THEN << IntOfDigits(digs) * ONE >>
        ELSE << IntOfDigits(digs) * Pow10(2 * MaxFrac - FracLen(s)) >>

\* validate_decimal_input(value) : << d >> or None
validate_decimal_input(value) ==
    IF value = << >> THEN None ELSE Decimal(CleanText(value))

\* Decimal * Decimal, exact
DecMul(a, b) == (a * b) \div ONE

-----------------------------------------------------------------------------
(* Reference data and the inputs the user may give                         *)

CURRENCIES == {"USD", "EUR", "JPY", "GBP", "CNY"}

EXPENSE_CATEGORIES ==
    {"Food", "Gas", "Utilities", "Rent/Mortgage", "Transportation",
     "Entertainment", "Healthcare", "Shopping", "Other"}

BudgetTypes == {"Daily", "Weekly", "Monthly", "Yearly"}

\* the currencies the user picks among, the category picked on the budget
\* page and the expense type picked on the calculator page
CurrencyChoices == {"USD", "EUR"}
CategoryChoices == {"Food"}
CalculatorTypes == {"Gas"}

\* texts typed into "Enter your ... budget"
BudgetTexts ==
    { << "1", "0" >>, << "-", "1", "0" >>, << "0" >>, << "a", "b" >>,
      << "1", ".", "2", ".", "3" >> }

\* texts typed into the budget page's "Amount"
AmountTexts == { << "9" >>, << "0" >>, << "x" >> }

\* texts typed into the calculator's price and quantity fields
PriceTexts == { << "9", ".", "9" >>, << "0" >>, << >> }
QuantityTexts == { << "1" >>, << "x" >> }

\* texts typed into "Description (optional)"
DescriptionChoices == { "" }

\* the instants at which the user acts, in the leap year after Epoch's
LeapYear == Epoch.year + 1
FirstInstant == DateTime(LeapYear, 2, 28, 23, 0)
SessionInstants == { FirstInstant, DateTime(LeapYear, 3, 31, 0, 1) }

\* a < b for two datetimes
Before(a, b) ==
    toordinal(a) * 1440 + MinuteOfDay(a) < toordinal(b) * 1440 + MinuteOfDay(b)

-----------------------------------------------------------------------------
(* Settings file                                                           *)

MissingFile == [kind |-> "missing"]
CorruptFile == [kind |-> "corrupt"]

\* get_default_settings()
get_default_settings ==
    [kind |-> "json", currency |-> "USD", expense_history |-> << >>]

\* the persisted form of an expense: {**expense, 'date': date.isoformat()}
ToStored(e) == [e EXCEPT !.date = isoformat(e.date)]

\* the loaded form: {**expense, 'date': datetime.fromisoformat(date)}
FromStored(e) == [e EXCEPT !.date = fromisoformat(e.date)]

\* save_settings(): the file after it.  Every expense holds its amount as a
\* Decimal, which json.dump cannot serialize: it raises TypeError after
\* open(..., 'w') has truncated the file and part of the text is written;
\* the except clause reports it and leaves the file as it is.
save_settings(cur, hist) ==
    IF hist # << >> THEN CorruptFile
    ELSE [kind |-> "json", currency |-> cur,
          expense_history |-> [i \in 1..Len(hist) |-> ToStored(hist[i])]]

\* load_settings(): defaults when the file is missing or json.load fails
load_settings(file) ==
    IF file.kind = "json" THEN file ELSE get_default_settings

-----------------------------------------------------------------------------
(* Budget period                                                           *)

\* a weekly budget reset by the calendar days passed, not the time elapsed
ResetNeeded_CalendarDays(type, start, t) ==
    IF type = "Daily" THEN DateGT(t, start)
    ELSE IF type = "Weekly" THEN toordinal(t) - toordinal(start) >= 7
    ELSE IF type = "Monthly"
        THEN t.year > start.year
             \/ (t.year = start.year /\ t.month > start.month)
    ELSE IF type = "Yearly" THEN t.year > start.year
    ELSE FALSE

\* check_budget_reset(): the value of reset_needed
ResetNeeded(type, start, t) ==
    IF type = "Daily" THEN DateGT(t, start)
    ELSE IF type = "Weekly" THEN TimedeltaDays(t, start) >= 7
    ELSE IF type = "Monthly"
        THEN t.year > start.year
             \/ (t.year = start.year /\ t.month > start.month)
    ELSE IF type = "Yearly" THEN t.year > start.year
    ELSE FALSE

\* whether budget_tracker() calls check_budget_reset() and it gets past its
\* early return
ChecksReset(type, start) == type # NoType /\ start # None

\* whether the call rolls the budget over
RollsOver(type, start, t) == ChecksReset(type, start) /\ ResetNeeded(type, start, t)

\* check_budget_reset(): budget_start_date and expenses after the call
StartAfterCheck(type, start, t) == IF RollsOver(type, start, t) THEN t ELSE start

\* a rollover that leaves the current view as it is
ExpensesAfterCheck_Kept(type, start, t, exps) == exps

ExpensesAfterCheck(type, start, t, exps) ==
    IF RollsOver(type, start, t) THEN << >> ELSE exps

NA == [na |-> TRUE]

\* a weekly next reset date six days on, counting the start day as the first
get_next_reset_date_SixDays(type, start) ==
    IF start = None THEN NA
    ELSE IF type = "Daily" THEN strftime(AddDays(start, 1))
    ELSE IF type = "Weekly" THEN strftime(AddDays(start, 6))
    ELSE IF type = "Monthly" THEN
        LET next_month == start.month + 1
            next_year == start.year + (IF next_month > 12 THEN 1 ELSE 0)
            next_reset == replace(start, next_year, ((next_month - 1) % 12) + 1)
        IN  IF next_reset = ValueError THEN ValueError ELSE strftime(next_reset)
    ELSE
        LET next_reset == replace(start, start.year + 1, start.month)
        IN  IF next_reset = ValueError THEN ValueError ELSE strftime(next_reset)

\* get_next_reset_date(): the date text, "N/A", or ValueError out of replace()
get_next_reset_date(type, start) ==
    IF start = None THEN NA
    ELSE IF type = "Daily" THEN strftime(AddDays(start, 1))
    ELSE IF type = "Weekly" THEN strftime(AddDays(start, 7))
    ELSE IF type = "Monthly" THEN
        LET next_month == start.month + 1
            next_year == start.year + (IF next_month > 12 THEN 1 ELSE 0)
            next_reset == replace(start, next_year, ((next_month - 1) % 12) + 1)
        IN  IF next_reset = ValueError THEN ValueError ELSE strftime(next_reset)
    ELSE
        LET next_reset == replace(start, start.year + 1, start.month)
        IN  IF next_reset = ValueError THEN ValueError ELSE strftime(next_reset)

\* budget_tracker(): the status block cannot be rendered, which ends the
\* script run before the widgets below it are drawn or read
DisplayFails(type, start) == get_next_reset_date(type, start) = ValueError

\* budget_tracker(): "Add Expense" and "Reset Budget" are on the page.  The
\* page was last drawn for the budget as it is now: every change of the
\* budget is made by a run of budget_tracker() that draws it afterwards.
ButtonsDrawn == budget_type # NoType /\ ~DisplayFails(budget_type, budget_start_date)

\* "Set Budget" refusing negative amounts only
BudgetAmountRefused_Negative(amount) == amount = None \/ amount[1] < 0

\* "Set Budget": the amount is refused
BudgetAmountRefused(amount) == amount = None \/ amount[1] <= 0

\* "Add Expense": the amount is refused
ExpenseAmountRefused(amount) == amount = None \/ amount[1] <= 0

\* expense_calculator(): the values are refused
CalculatorValuesRefused(price, qty) == price < 0 \/ qty < 0

RECURSIVE SumAmounts(_)
SumAmounts(exps) ==
    IF exps = << >> THEN 0 ELSE exps[1].amount + SumAmounts(Tail(exps))

\* budget_tracker(): total_expenses, remaining_budget and status_class of
\* the status block, for the state as it is
total_expenses == SumAmounts(expenses)

remaining_budget == budget_amount[1] - total_expenses

\* remaining_budget < budget_amount * Decimal('0.2')
BelowFifth(remaining, amount) == remaining * 10 < amount * 2

status_class ==
    IF remaining_budget < 0 THEN "budget-exceeded"
    ELSE IF BelowFifth(remaining_budget, budget_amount[1]) THEN "budget-warning"
    ELSE "budget-ok"

\* show_budget_notification(remaining_budget): the notice shown, under
\* either value of the two notification settings
show_budget_notification(notifications_enabled, critical_warning_enabled) ==
    IF ~notifications_enabled THEN "none"
    ELSE IF remaining_budget <= 0 THEN "depleted"
    ELSE IF remaining_budget * 100 <= budget_amount[1] /\ critical_warning_enabled
        THEN "critical"
    ELSE IF BelowFifth(remaining_budget, budget_amount[1]) THEN "low"
    ELSE "none"

-----------------------------------------------------------------------------
(* Expense ledger                                                          *)

\* add_expense(): the expense dict
Expense(t, amount, description, category, cur, type, start) ==
    [date |-> t, amount |-> amount, description |-> description,
     category |-> category, currency |-> cur, budget_type |-> type,
     budget_period |-> << strftime(start), get_next_reset_date(type, start) >>]

\* add_expense(): how the call ends.  Building the dict raises
\* AttributeError on budget_start_date = None and lets the ValueError of
\* get_next_reset_date() through; then the expense is appended only under
\* a budget type.
add_expense_outcome(type, start) ==
    IF start = None THEN "AttributeError"
    ELSE IF get_next_reset_date(type, start) = ValueError THEN "ValueError"
    ELSE IF type # NoType THEN "appended"
    ELSE "skipped"

-----------------------------------------------------------------------------
(* The session                                                             *)

\* the state a new session starts in: "Initialize session state from stored
\* settings", given the file's content
SessionOf(file) ==
    LET settings == load_settings(file)
    IN  /\ currency' = settings.currency
        /\ budget_type' = NoType
        /\ budget_amount' = None
        /\ budget_start_date' = None
        /\ expenses' = << >>
        /\ expense_history' = 
            [i \in 1..Len(settings.expense_history) |->
                FromStored(settings.expense_history[i])]

Init ==
    /\ settings_file = MissingFile
    /\ currency = get_default_settings.currency
    /\ budget_type = NoType
    /\ budget_amount = None
    /\ budget_start_date = None
    /\ expenses = << >>
    /\ expense_history = << >>
    /\ now = FirstInstant
    /\ reset_needed = None
    /\ filtered_expenses = None
    /\ result = "ok"
    /\ periodSpent = 0

budgetVars == << budget_type, budget_amount, budget_start_date >>
ledgerVars == << expenses, expense_history >>

\* time passes between two script runs
Tick ==
    /\ \E t \in SessionInstants : Before(now, t) /\ now' = t
    /\ UNCHANGED << currency, budgetVars, ledgerVars, settings_file,
                    reset_needed, filtered_expenses, result,
                    periodSpent >>

\* a new session: the script runs with no 'initialized' in the session state
Restart ==
    /\ SessionOf(settings_file)
    /\ reset_needed' = None
    /\ filtered_expenses' = None
    /\ result' = "ok"
    /\ periodSpent' = 0
    /\ UNCHANGED << settings_file, now >>

\* main_menu(): another currency is selected
ChangeCurrency ==
    /\ \E c \in CurrencyChoices :
        /\ c # currency
        /\ currency' = c
        /\ settings_file' = save_settings(c, expense_history)
    /\ result' = IF settings_file' = CorruptFile THEN "error" ELSE "ok"
    /\ UNCHANGED << budgetVars, ledgerVars, now, reset_needed,
                    filtered_expenses, periodSpent >>

\* settings(): the theme or a notification toggle is changed
ChangeSettings ==
    /\ settings_file' = save_settings(currency, expense_history)
    /\ result' = IF settings_file' = CorruptFile THEN "error" ELSE "ok"
    /\ UNCHANGED << currency, budgetVars, ledgerVars, now, reset_needed,
                    filtered_expenses, periodSpent >>

\* budget_tracker() up to its widgets: check_budget_reset() under a budget
\* type.  budget_start_date, expenses, reset_needed and periodSpent after it.
CheckedStart == StartAfterCheck(budget_type, budget_start_date, now)
CheckedExpenses == ExpensesAfterCheck(budget_type, budget_start_date, now, expenses)
CheckedResetNeeded ==
    IF ChecksReset(budget_type, budget_start_date)
    THEN << ResetNeeded(budget_type, budget_start_date, now) >>
    ELSE reset_needed
CheckedSpent ==
    IF RollsOver(budget_type, budget_start_date, now) THEN 0 ELSE periodSpent

\* budget_tracker() with no button pressed: the budget page is opened
ViewBudget ==
    /\ budget_start_date' = CheckedStart
    /\ expenses' = CheckedExpenses
    /\ reset_needed' = CheckedResetNeeded
    /\ periodSpent' = CheckedSpent
    /\ result' = IF budget_type # NoType /\ DisplayFails(budget_type, CheckedStart)
                 THEN "ValueError" ELSE "ok"
    /\ UNCHANGED << currency, budget_type, budget_amount, expense_history,
                    settings_file, now, filtered_expenses >>

\* budget_tracker(): "Set Budget" is pressed with a period and a text; the
\* form is shown under no budget type.  st.rerun() after a success runs
\* budget_tracker() again.
SetBudgetWith(type, text) ==
    /\ budget_type = NoType
    /\ LET amount == Decimal(CleanText(text))
       IN  IF BudgetAmountRefused(amount)
           THEN /\ result' = "error"
                /\ UNCHANGED << budgetVars, expenses, reset_needed, periodSpent >>
           ELSE /\ budget_type' = type
                /\ budget_amount' = amount
                /\ budget_start_date' = StartAfterCheck(type, now, now)
                /\ expenses' = ExpensesAfterCheck(type, now, now, expenses)
                /\ reset_needed' = << ResetNeeded(type, now, now) >>
                /\ periodSpent' = 0
                /\ result' = IF DisplayFails(type, StartAfterCheck(type, now, now))
                             THEN "ValueError" ELSE "ok"
    /\ UNCHANGED << currency, expense_history, settings_file, now,
                    filtered_expenses >>

SetBudget == \E type \in BudgetTypes, text \in BudgetTexts : SetBudgetWith(type, text)

\* budget_tracker(): "Add Expense" is pressed; the button is drawn under a
\* budget type, after the reset check and the status block.  st.rerun()
\* after add_expense() runs budget_tracker() again.
AddExpense ==
    /\ ButtonsDrawn
    /\ \E text \in AmountTexts, description \in DescriptionChoices,
          category \in CategoryChoices :
        LET expense_amount == Decimal(CleanText(text))
            expense == Expense(now, expense_amount[1], description, category,
                               currency, budget_type, CheckedStart)
            outcome == add_expense_outcome(budget_type, CheckedStart)
        IN  IF DisplayFails(budget_type, CheckedStart)
            THEN /\ result' = "ValueError"
                 /\ budget_start_date' = CheckedStart
                 /\ expenses' = CheckedExpenses
                 /\ reset_needed' = CheckedResetNeeded
                 /\ periodSpent' = CheckedSpent
                 /\ UNCHANGED << expense_history, settings_file >>
            ELSE IF ExpenseAmountRefused(expense_amount)
            THEN /\ result' = "error"
                 /\ budget_start_date' = CheckedStart
                 /\ expenses' = CheckedExpenses
                 /\ reset_needed' = CheckedResetNeeded
                 /\ periodSpent' = CheckedSpent
                 /\ UNCHANGED << expense_history, settings_file >>
            ELSE IF outcome = "appended"
            THEN /\ Len(expense_history) < MaxHistory
                 /\ expense_history' = Append(expense_history, expense)
                 /\ settings_file' = save_settings(currency, expense_history')
                 /\ budget_start_date' = StartAfterCheck(budget_type, CheckedStart, now)
                 /\ expenses' = ExpensesAfterCheck(budget_type, CheckedStart, now,
                                                   Append(CheckedExpenses, expense))
                 /\ reset_needed' = << ResetNeeded(budget_type, CheckedStart, now) >>
                 /\ periodSpent' = IF RollsOver(budget_type, CheckedStart, now)
                                   THEN 0 ELSE CheckedSpent + expense_amount[1]
                 /\ result' = "ok"
            ELSE /\ result' = outcome
                 /\ budget_start_date' = CheckedStart
                 /\ expenses' = CheckedExpenses
                 /\ reset_needed' = CheckedResetNeeded
                 /\ periodSpent' = CheckedSpent
                 /\ UNCHANGED << expense_history, settings_file >>
    /\ UNCHANGED << currency, budget_type, budget_amount, now,
                    filtered_expenses >>

\* a "Reset Budget" that clears the history with the current view
ResetBudget_ClearsHistory ==
    /\ ButtonsDrawn
    /\ IF DisplayFails(budget_type, CheckedStart)
       THEN /\ result' = "ValueError"
            /\ budget_start_date' = CheckedStart
            /\ expenses' = CheckedExpenses
            /\ UNCHANGED << budget_type, budget_amount, expense_history >>
       ELSE /\ result' = "ok"
            /\ budget_type' = NoType
            /\ budget_amount' = None
            /\ budget_start_date' = None
            /\ expenses' = << >>
            /\ expense_history' = << >>
    /\ reset_needed' = CheckedResetNeeded
    /\ periodSpent' = CheckedSpent
    /\ UNCHANGED << currency, settings_file, now, filtered_expenses >>

\* budget_tracker(): "Reset Budget" is pressed; the button is drawn under a
\* budget type, after the reset check and the status block
ResetBudget ==
    /\ ButtonsDrawn
    /\ IF DisplayFails(budget_type, CheckedStart)
       THEN /\ result' = "ValueError"
            /\ budget_start_date' = CheckedStart
            /\ expenses' = CheckedExpenses
            /\ UNCHANGED << budget_type, budget_amount >>
       ELSE /\ result' = "ok"
            /\ budget_type' = NoType
            /\ budget_amount' = None
            /\ budget_start_date' = None
            /\ expenses' = << >>
    /\ reset_needed' = CheckedResetNeeded
    /\ periodSpent' = CheckedSpent
    /\ UNCHANGED << currency, expense_history, settings_file, now,
                    filtered_expenses >>

\* expense_calculator(): "Add to Budget" is pressed; the button is drawn
\* when both texts parse and neither value is negative.  The page does not
\* call check_budget_reset().
AddToBudget ==
    /\ \E expense_type \in CalculatorTypes, item_price \in PriceTexts,
          quantity \in QuantityTexts :
        LET price == validate_decimal_input(item_price)
            qty == validate_decimal_input(quantity)
            total == DecMul(price[1], qty[1])
            description == IF expense_type = "Food" THEN "Food expense"
                           ELSE "Gas expense"
            expense == Expense(now, total, description, expense_type, currency,
                               budget_type, budget_start_date)
            outcome == add_expense_outcome(budget_type, budget_start_date)
        IN  /\ price # None /\ qty # None
            /\ IF CalculatorValuesRefused(price[1], qty[1])
               THEN /\ result' = "error"
                    /\ UNCHANGED << ledgerVars, settings_file, periodSpent >>
               ELSE IF outcome = "appended"
               THEN /\ Len(expense_history) < MaxHistory
                    /\ expenses' = Append(expenses, expense)
                    /\ expense_history' = Append(expense_history, expense)
                    /\ settings_file' = save_settings(currency, expense_history')
                    /\ periodSpent' = periodSpent + total
                    /\ result' = "ok"
               ELSE /\ result' = outcome
                    /\ UNCHANGED << ledgerVars, settings_file, periodSpent >>
    /\ UNCHANGED << currency, budgetVars, now, reset_needed,
                    filtered_expenses >>

Next ==
    \/ Tick
    \/ Restart
    \/ ChangeCurrency
    \/ ChangeSettings
    \/ ViewBudget
    \/ SetBudget
    \/ AddExpense
    \/ ResetBudget
    \/ AddToBudget

Spec == Init /\ [][Next]_vars

-----------------------------------------------------------------------------
(* The rollover decision over the calendar: a budget set at any sampled    *)
(* instant, the budget page opened at any sampled instant from then on     *)

SampleMonths == {1, 2, 12}
SampleDays == {1, 2, 7, 8, 28, 29, 30, 31}
SampleTimes == { << 0, 0 >>, << 23, 59 >> }

CalendarInstants ==
    { t \in { DateTime(y, m, d, hm[1], hm[2]) :
                y \in Years, m \in SampleMonths, d \in SampleDays,
                hm \in SampleTimes } :
        ValidDate(t.year, t.month, t.day) }

\* the session after "Set Budget" at one instant, seen at a later one
InitReset ==
    /\ settings_file = MissingFile
    /\ currency = get_default_settings.currency
    /\ budget_type \in BudgetTypes
    /\ budget_amount = Decimal(<< "1", "0" >>)
    /\ budget_start_date \in CalendarInstants
    /\ now \in { t \in CalendarInstants : ~Before(t, budget_start_date) }
    /\ expenses = << >>
    /\ expense_history = << >>
    /\ reset_needed = None
    /\ filtered_expenses = None
    /\ result = IF DisplayFails(budget_type, budget_start_date)
                THEN "ValueError" ELSE "ok"
    /\ periodSpent = 0

NextReset == ViewBudget

SpecReset == InitReset /\ [][NextReset]_vars

-----------------------------------------------------------------------------
(* The history page                                                        *)

DateRanges == {"Last 7 days", "Last 30 days", "Last 3 months", "All time"}

\* expense_history(): the category filter
FilterByCategory(list, selected_category) ==
    IF selected_category # "All"
    THEN SelectSeq(list, LAMBDA e : e.category = selected_category)
    ELSE list

\* a time-period filter that leaves out the last day of each window
FilterByRange_Strict(list, date_range, t) ==
    IF date_range = "Last 7 days"
    THEN SelectSeq(list, LAMBDA e : TimedeltaDays(t, e.date) < 7)
    ELSE IF date_range = "Last 30 days"
    THEN SelectSeq(list, LAMBDA e : TimedeltaDays(t, e.date) < 30)
    ELSE IF date_range = "Last 3 months"
    THEN SelectSeq(list, LAMBDA e : TimedeltaDays(t, e.date) < 90)
    ELSE list

\* expense_history(): the time-period filter
FilterByRange(list, date_range, t) ==
    IF date_range = "Last 7 days"
    THEN SelectSeq(list, LAMBDA e : TimedeltaDays(t, e.date) <= 7)
    ELSE IF date_range = "Last 30 days"
    THEN SelectSeq(list, LAMBDA e : TimedeltaDays(t, e.date) <= 30)
    ELSE IF date_range = "Last 3 months"
    THEN SelectSeq(list, LAMBDA e : TimedeltaDays(t, e.date) <= 90)
    ELSE list

\* min(e['date'] for e in filtered_expenses)
RECURSIVE MinDate(_)
MinDate(list) ==
    IF Len(list) = 1 THEN list[1].date
    ELSE LET m == MinDate(Tail(list))
         IN  IF Before(m, list[1].date) THEN m ELSE list[1].date

Max(a, b) == IF a >= b THEN a ELSE b

\* expense_history(): the summary statistics, or None for the st.info of the
\* else branch.  avg_per_day is kept as the quotient's two operands.
Summary(list, t) ==
    IF list # << >>
    THEN [total_spent |-> SumAmounts(list),
          avg_per_day |-> << SumAmounts(list),
                             Max(1, TimedeltaDays(t, MinDate(list))) >>]
    ELSE None

\* expense_history(): the page is drawn for a category and a time period
ViewHistory ==
    /\ \E selected_category \in {"All"} \cup CategoryChoices \cup CalculatorTypes,
          date_range \in DateRanges :
        LET filtered == FilterByRange(
                            FilterByCategory(expense_history, selected_category),
                            date_range, now)
        IN  filtered_expenses' =
                [selected_category |-> selected_category,
                 date_range |-> date_range,
                 filtered |-> filtered,
                 summary |-> Summary(filtered, now)]
    /\ result' = "ok"
    /\ UNCHANGED << currency, budgetVars, ledgerVars, settings_file, now,
                    reset_needed, periodSpent >>

\* the instant the history page is opened at, and instants 0, 7, 8, 30, 31,
\* 90 and 91 days before it, a minute short of the day where it matters
FilterNow == DateTime(LeapYear, 4, 1, 12, 0)

FilterInstants ==
    { DateTime(LeapYear, 1, 1, 12, 0), DateTime(LeapYear, 1, 1, 12, 1),
      DateTime(LeapYear, 3, 1, 12, 0), DateTime(LeapYear, 3, 1, 12, 1),
      DateTime(LeapYear, 3, 24, 12, 0), DateTime(LeapYear, 3, 24, 12, 1),
      FilterNow }

\* an expense added at t under a daily budget set at t
FilterRecords ==
    { Expense(t, Decimal(<< "9" >>)[1], "", category, "USD", "Daily", t) :
        t \in FilterInstants, category \in CategoryChoices \cup CalculatorTypes }

\* histories in the order of their timestamps, as appending at now leaves them
Chronological(list) ==
    \A i \in 1..(Len(list) - 1) : ~Before(list[i + 1].date, list[i].date)

Histories ==
    { h \in UNION { [1..n -> FilterRecords] : n \in 0..MaxFiltered } :
        Chronological(h) }

\* the session after the expenses of a history were added and the budget was
\* reset, seen at FilterNow
InitFilter ==
    /\ expense_history \in Histories
    /\ settings_file = IF expense_history = << >> THEN MissingFile ELSE CorruptFile
    /\ currency = get_default_settings.currency
    /\ budget_type = NoType
    /\ budget_amount = None
    /\ budget_start_date = None
    /\ expenses = << >>
    /\ now = FilterNow
    /\ reset_needed = None
    /\ filtered_expenses = None
    /\ result = "ok"
    /\ periodSpent = 0

NextFilter == ViewHistory

SpecFilter == InitFilter /\ [][NextFilter]_vars

-----------------------------------------------------------------------------
(* Properties                                                              *)

IsPrefix(a, b) == Len(a) <= Len(b) /\ SubSeq(b, 1, Len(a)) = a

Min(a, b) == IF a <= b THEN a ELSE b

\* a step of the running session: every action but the start of a new one
InSessionStep ==
    \/ Tick
    \/ ChangeCurrency
    \/ ChangeSettings
    \/ ViewBudget
    \/ SetBudget
    \/ AddExpense
    \/ ResetBudget
    \/ AddToBudget

C2_RoundTrip == [][Restart => expense_history' = expense_history]_vars

\* C3: an add-expense call under no budget, from either page, leaves the
\* current view and the history as they are and ends in a reported error,
\* not in an exception that leaves the operation.
C3_NoBudgetAddReports ==
    [][ ( /\ AddToBudget \/ AddExpense
          /\ budget_type = NoType
          /\ budget_amount = None
          /\ budget_start_date = None )
        => (UNCHANGED ledgerVars /\ result' = "error") ]_vars

\* C4: every expense of the current view and of the history has an amount
\* above zero.
C4_AmountsPositive ==
    /\ \A i \in 1..Len(expenses) : expenses[i].amount > 0
    /\ \A i \in 1..Len(expense_history) : expense_history[i].amount > 0

\* the next reset date as C5 states it: one day or seven days on, one
\* calendar month on with the day clamped to the month's length, one year on
NextResetDate(type, start) ==
    IF type = "Daily" THEN strftime(AddDays(start, 1))
    ELSE IF type = "Weekly" THEN strftime(AddDays(start, 7))
    ELSE IF type = "Monthly" THEN
        LET y == IF start.month = 12 THEN start.year + 1 ELSE start.year
            m == IF start.month = 12 THEN 1 ELSE start.month + 1
        IN  << y, m, Min(start.day, DaysInMonth(y, m)) >>
    ELSE << start.year + 1, start.month,
            Min(start.day, DaysInMonth(start.year + 1, start.month)) >>

\* C5: for every budget start the next reset date is the start moved on by
\* the period, clamped to a day that exists, and no script run that draws
\* the budget view or adds an expense ends in the ValueError of computing it.
C5_NextResetTotal ==
    /\ budget_start_date # None =>
         /\ ~DisplayFails(budget_type, budget_start_date)
         /\ get_next_reset_date(budget_type, budget_start_date)
              = NextResetDate(budget_type, budget_start_date)
    /\ result # "ValueError"

\* minutes from a to b
MinutesBetween(a, b) ==
    (toordinal(b) - toordinal(a)) * 1440 + MinuteOfDay(b) - MinuteOfDay(a)

\* isResetDue as the specification states it
IsResetDue(type, start, t) ==
    IF type = "Daily" THEN toordinal(t) > toordinal(start)
    ELSE IF type = "Weekly" THEN MinutesBetween(start, t) >= 7 * 1440
    ELSE IF type = "Monthly"
        THEN t.year * 12 + t.month > start.year * 12 + start.month
    ELSE t.year > start.year

\* C6: whenever the budget page runs check_budget_reset under a budget, the
\* rollover decision it takes for (type, start, now) is isResetDue: Daily
\* iff now's date is after start's; Weekly iff seven full days have
\* elapsed; Monthly iff now's (year, month) is after start's; Yearly iff
\* now's year is after start's.
C6_RolloverDecision ==
    [][ (ViewBudget /\ budget_type # NoType)
        => reset_needed' = << IsResetDue(budget_type, budget_start_date, now) >>
      ]_vars

\* C6: a weekly budget rolled over at midnight, the eighth day of a month
C6_Witness ==
    /\ budget_type = "Weekly"
    /\ reset_needed = << TRUE >>
    /\ budget_start_date = now
    /\ now.day = 8 /\ MinuteOfDay(now) = 0

\* C7: opening the budget view under a budget with a rollover due sets the
\* start to now and empties the current view, type, amount and history
\* staying as they are; with none due nothing of the session changes; and
\* after Reset Budget is pressed type, amount and start are unset and the
\* current view is empty.
C7_RolloverAndResetFrame ==
    [][ /\ (ViewBudget /\ budget_type # NoType) =>
             IF IsResetDue(budget_type, budget_start_date, now)
             THEN /\ budget_start_date' = now
                  /\ expenses' = << >>
                  /\ UNCHANGED << budget_type, budget_amount, expense_history >>
             ELSE UNCHANGED << budgetVars, ledgerVars, currency, settings_file >>
        /\ ResetBudget =>
             /\ budget_type' = NoType
             /\ budget_amount' = None
             /\ budget_start_date' = None
             /\ expenses' = << >>
      ]_vars

BudgetAbsent ==
    /\ budget_type = NoType
    /\ budget_amount = None
    /\ budget_start_date = None
    /\ expenses = << >>

BudgetPresent ==
    /\ budget_type \in BudgetTypes
    /\ budget_start_date # None
    /\ budget_amount # None
    /\ budget_amount[1] > 0

\* the text of a Set Budget attempt is no decimal, or its value is not
\* above zero
NotAPositiveAmount(text) ==
    LET d == Decimal(CleanText(text))
    IN  d = None \/ d[1] <= 0

\* C8: in every state the budget is wholly absent, with an empty current
\* view, or wholly present with a type, a start and an amount above zero;
\* and a Set Budget attempt whose text is no decimal or whose value is not
\* above zero leaves the budget and both ledger views as they are.
C8_BudgetWellFormed ==
    /\ [](BudgetAbsent \/ BudgetPresent)
    /\ [][ \A type \in BudgetTypes, text \in BudgetTexts :
             (SetBudgetWith(type, text) /\ NotAPositiveAmount(text))
               => UNCHANGED << budgetVars, ledgerVars >> ]_vars

\* C8: a Set Budget attempt was refused and there is no budget
C8_Witness ==
    /\ result = "error"
    /\ settings_file # CorruptFile
    /\ BudgetAbsent

WindowDays(date_range) ==
    IF date_range = "Last 7 days" THEN 7
    ELSE IF date_range = "Last 30 days" THEN 30
    ELSE 90

\* C10's reading of the filter: the category chosen or All, and an age of
\* at most the window's days, counted in whole days
Selected(e, selected_category, date_range, t) ==
    /\ selected_category = "All" \/ e.category = selected_category
    /\ \/ date_range = "All time"
       \/ MinutesBetween(e.date, t) < (WindowDays(date_range) + 1) * 1440

\* C10: the history page's filter returns exactly the records of the
\* history of the chosen category (all of them for All) whose age in whole
\* days is at most 7, 30 or 90 (any age for All time), in the history's
\* order; an empty result is reported as no data and no average is
\* computed, a non-empty one is summarised.
C10_FilterExact ==
    filtered_expenses # None =>
        /\ filtered_expenses.filtered =
             SelectSeq(expense_history,
                       LAMBDA e : Selected(e, filtered_expenses.selected_category,
                                           filtered_expenses.date_range, now))
        /\ (filtered_expenses.filtered = << >>)
             <=> (filtered_expenses.summary = None)

\* C10: the seven-day window kept one of two expenses of one category
C10_Witness ==
    /\ filtered_expenses # None
    /\ filtered_expenses.date_range = "Last 7 days"
    /\ filtered_expenses.selected_category = "Food"
    /\ Len(expense_history) = 2
    /\ Len(filtered_expenses.filtered) = 1
    /\ expense_history[1].category = "Food"
    /\ expense_history[2].category = "Food"

\* the date d1 is before the date d2, both << year, month, day >>
DateBefore(d1, d2) ==
    \/ d1[1] < d2[1]
    \/ d1[1] = d2[1] /\ d1[2] < d2[2]
    \/ d1[1] = d2[1] /\ d1[2] = d2[2] /\ d1[3] < d2[3]

\* the first day of the calendar month (Monthly) or year (Yearly) after start's
FirstOfNextPeriod(type, start) ==
    IF type = "Monthly"
    THEN IF start.month = 12 THEN << start.year + 1, 1, 1 >>
         ELSE << start.year, start.month + 1, 1 >>
    ELSE << start.year + 1, 1, 1 >>

=============================================================================
